---- MODULE Spec2Model ----
(***************************************************************************)
(* Model of app.py: the Gemini timeline generator (generate_gemini_timeline)*)
(* and the Flask routes that call it and persist its results.              *)
(*                                                                         *)
(* Python strings are sequences of one-character strings, so that `in`,    *)
(* str.split, json.loads and json.dumps are modelled by what they do.      *)
(* Python values are records [t, s, m]: t the Python type, s the characters *)
(* of a str, m the (key, value) pairs of a dict in insertion order.        *)
(***************************************************************************)
EXTENDS Integers, Sequences, FiniteSets, TLC

(* ------------------------------ bounds -------------------------------- *)
\* Response texts are concatenations of at most MaxSegments segments.
MaxSegments == 3
\* Rows the Project table may hold in the model.
MaxProjects == 2

(* --------------------------- Python values ---------------------------- *)
PyNone == [t |-> "NoneType", s |-> <<>>, m |-> <<>>]
PyStr(chars) == [t |-> "str", s |-> chars, m |-> <<>>]
PyInt(digits) == [t |-> "int", s |-> digits, m |-> <<>>]
PyDict(pairs) == [t |-> "dict", s |-> <<>>, m |-> pairs]

\* Python truth value: None, "", 0 and an empty dict are falsy.
Truthy(v) ==
    CASE v.t = "NoneType" -> FALSE
      [] v.t = "str" -> v.s # <<>>
      [] v.t = "int" -> v.s # <<"0">>
      [] v.t = "dict" -> v.m # <<>>

\* str(v) as an f-string embeds it.
Format(v) ==
    CASE v.t = "NoneType" -> <<"N", "o", "n", "e">>
      [] OTHER -> v.s

\* dict: `key in d`.
HasKey(d, key) == \E i \in 1..Len(d.m) : d.m[i].k = key

\* dict: d[key] for a key that is present.
Lookup(d, key) == d.m[CHOOSE i \in 1..Len(d.m) : d.m[i].k = key].v

\* dict.get(key, default)
DictGet(d, key, default) == IF HasKey(d, key) THEN Lookup(d, key) ELSE default

\* dict(pairs): a repeated key keeps its first position and its last value.
Put(pairs, key, val) ==
    IF \E i \in 1..Len(pairs) : pairs[i].k = key
    THEN [i \in 1..Len(pairs) |->
            IF pairs[i].k = key THEN [k |-> key, v |-> val] ELSE pairs[i]]
    ELSE Append(pairs, [k |-> key, v |-> val])

(* --------------------------- Python strings --------------------------- *)
\* s[i-1:i] with a 1-based index: "" past the end.
CharAt(s, i) == IF i >= 1 /\ i <= Len(s) THEN s[i] ELSE ""

StartsAt(s, sub, i) ==
    /\ i >= 1
    /\ i + Len(sub) - 1 <= Len(s)
    /\ \A k \in 1..Len(sub) : s[i + k - 1] = sub[k]

\* s.find(sub, start), 1-based; 0 when sub does not occur from start on.
RECURSIVE FindFrom(_, _, _)
FindFrom(s, sub, start) ==
    IF start + Len(sub) - 1 > Len(s) THEN 0
    ELSE IF StartsAt(s, sub, start) THEN start
    ELSE FindFrom(s, sub, start + 1)

Find(s, sub) == FindFrom(s, sub, 1)

\* `sub in s`
Contains(s, sub) == Find(s, sub) # 0

\* s.split(sep): the pieces between leftmost non-overlapping occurrences.
RECURSIVE Split(_, _)
Split(s, sep) ==
    LET i == Find(s, sep)
    IN IF i = 0
       THEN <<s>>
       ELSE <<SubSeq(s, 1, i - 1)>> \o Split(SubSeq(s, i + Len(sep), Len(s)), sep)

\* The grave accent U+0060 (the lexer accepts no such character in a string).
BT == "U+0060"
Fence == <<BT, BT, BT>>
FenceJson == Fence \o <<"j", "s", "o", "n">>
NL == <<"\n">>

(* ------------------------------ json.loads ---------------------------- *)
\* The decoder on texts without digits, brackets, backslashes or the
\* letters of true/false/null: values are strings and objects.
JsonWs == {" ", "\n"}

Ok(v, n) == [ok |-> TRUE, val |-> v, next |-> n, msg |-> <<>>]

\* JSONDecodeError(what, doc, pos): pos is reported 0-based.
Bad(what, at) == [ok |-> FALSE, val |-> PyNone, next |-> 0,
                  msg |-> <<what, ": char ", ToString(at - 1)>>]

RECURSIVE SkipWs(_, _)
SkipWs(s, i) == IF i <= Len(s) /\ s[i] \in JsonWs THEN SkipWs(s, i + 1) ELSE i

\* First index from i holding a quote or a control character; Len(s)+1 if none.
RECURSIVE StringEnd(_, _)
StringEnd(s, i) ==
    IF i > Len(s) \/ s[i] \in {"\"", "\n"} THEN i ELSE StringEnd(s, i + 1)

\* scanstring(s, end): end is the index after the opening quote.
scanstring(s, end) ==
    LET j == StringEnd(s, end)
    IN IF j > Len(s) THEN Bad("Unterminated string starting at", end - 1)
       ELSE IF s[j] = "\n" THEN Bad("Invalid control character at", j)
       ELSE Ok(PyStr(SubSeq(s, end, j - 1)), j + 1)

RECURSIVE scan_once(_, _)
RECURSIVE JSONObject(_, _)
RECURSIVE Members(_, _, _)

\* The loop of JSONObject: end is the index after a key's opening quote.
Members(s, end, pairs) ==
    LET key == scanstring(s, end)
        e2 == IF CharAt(s, key.next) # ":" THEN SkipWs(s, key.next) ELSE key.next
        e3 == SkipWs(s, e2 + 1)
        value == scan_once(s, e3)
        pairs2 == Put(pairs, key.val.s, value.val)
        e4 == SkipWs(s, value.next)
        e5 == SkipWs(s, e4 + 1)
    IN IF ~key.ok THEN key
       ELSE IF CharAt(s, e2) # ":" THEN Bad("Expecting ':' delimiter", e2)
       ELSE IF ~value.ok THEN value
       ELSE IF CharAt(s, e4) = "}" THEN Ok(PyDict(pairs2), e4 + 1)
       ELSE IF CharAt(s, e4) # "," THEN Bad("Expecting ',' delimiter", e4)
       ELSE IF CharAt(s, e5) # "\""
            THEN Bad("Expecting property name enclosed in double quotes", e5)
       ELSE Members(s, e5 + 1, pairs2)

\* JSONObject(s, end): end is the index after the opening brace.
JSONObject(s, end) ==
    LET e1 == IF CharAt(s, end) # "\"" THEN SkipWs(s, end) ELSE end
    IN IF CharAt(s, e1) = "}" THEN Ok(PyDict(<<>>), e1 + 1)
       ELSE IF CharAt(s, e1) # "\""
            THEN Bad("Expecting property name enclosed in double quotes", e1)
       ELSE Members(s, e1 + 1, <<>>)

scan_once(s, i) ==
    IF CharAt(s, i) = "\"" THEN scanstring(s, i + 1)
    ELSE IF CharAt(s, i) = "{" THEN JSONObject(s, i + 1)
    ELSE Bad("Expecting value", i)

\* json.loads(s): [ok, val] on success, [~ok, msg] for a JSONDecodeError.
json_loads(s) ==
    LET r == scan_once(s, SkipWs(s, 1))
        e == SkipWs(s, r.next)
    IN IF ~r.ok THEN r
       ELSE IF e # Len(s) + 1 THEN Bad("Extra data", e)
       ELSE r

(* ------------------------------ json.dumps ---------------------------- *)
RECURSIVE json_dumps(_)
RECURSIVE DumpPairs(_, _)
DumpPairs(pairs, i) ==
    IF i > Len(pairs) THEN <<>>
    ELSE (IF i > 1 THEN <<",", " ">> ELSE <<>>)
         \o <<"\"">> \o pairs[i].k \o <<"\"", ":", " ">>
         \o json_dumps(pairs[i].v) \o DumpPairs(pairs, i + 1)

\* json.dumps(v) for the values json_loads yields (none needs escaping).
json_dumps(v) ==
    IF v.t = "str" THEN <<"\"">> \o v.s \o <<"\"">>
    ELSE <<"{">> \o DumpPairs(v.m, 1) \o <<"}">>

(* ----------------------- the generation service ---------------------- *)
PrimaryModel == "gemini-2.5-flash-lite"
FallbackModel == "gemini-1.5-pro"

\* Exceptions are [cls, msg]; str(e) is msg. All of these derive from Exception.
ExceptionSubclasses == {"ResourceExhausted", "NotFound", "ValueError",
                        "JSONDecodeError", "TypeError", "AttributeError"}
QuotaError == [cls |-> "ResourceExhausted", msg |-> <<"429 quota exceeded">>]
NotFoundError == [cls |-> "NotFound", msg |-> <<"404 model not found">>]
BlockedError == [cls |-> "ValueError", msg |-> <<"response.text: no valid Part">>]
NoError == [cls |-> "", msg |-> <<>>]
ServiceErrors == {QuotaError, NotFoundError}

\* What one generate_content call does: it raises err, or it returns a response
\* whose .text is text, or a response whose .text accessor raises err.
Raises(e) == [raises |-> TRUE, readable |-> FALSE, err |-> e, text |-> <<>>]
Responds(chars) == [raises |-> FALSE, readable |-> TRUE, err |-> NoError, text |-> chars]
Unreadable(e) == [raises |-> FALSE, readable |-> FALSE, err |-> e, text |-> <<>>]

(* ----------------------------- response texts ------------------------- *)
QUOTE == "\""
ErrorKey == <<"e", "r", "r", "o", "r">>
ProjectTitleKey == <<"p", "r", "o", "j", "e", "c", "t", "_", "t", "i", "t", "l", "e">>
UntitledProject == <<"Untitled Project">>

SegOpen == FenceJson \o NL
SegClose == NL \o Fence
SegProse == <<"x">>
SegObject == <<"{", QUOTE>> \o ProjectTitleKey \o <<QUOTE, ":", " ", QUOTE, "x", QUOTE, "}">>
SegErrObject == <<"{", QUOTE>> \o ErrorKey \o <<QUOTE, ":", " ", QUOTE, "x", QUOTE, "}">>
SegFenceString == <<QUOTE>> \o Fence \o <<QUOTE>>
SegFenced == SegOpen \o SegObject \o SegClose
Segments == {SegOpen, SegClose, SegProse, SegObject, SegErrObject, SegFenceString,
             SegFenced}

RECURSIVE TextsUpTo(_)
TextsUpTo(n) ==
    IF n = 0 THEN {<<>>}
    ELSE LET shorter == TextsUpTo(n - 1)
         IN shorter \cup {t \o g : t \in shorter, g \in Segments}

Texts == TextsUpTo(MaxSegments)
Outcomes == {Raises(e) : e \in ServiceErrors}
            \cup {Unreadable(BlockedError)}
            \cup {Responds(t) : t \in Texts}

(* ----------------------- generate_gemini_timeline --------------------- *)
\* The f-string of lines 96-123: the two arguments embedded verbatim.
BuildPrompt(project_desc, deadline_str) ==
    <<"You are an expert Senior Technical Project Manager. Create a detailed project timeline for: ", QUOTE>>
    \o Format(project_desc)
    \o <<QUOTE, ". Target Deadline: ">>
    \o Format(deadline_str)
    \o <<". Output stricly VALID JSON with this structure: {...}">>

\* Mutant: the inner handler written as `except ResourceExhausted:`.
CatchesQuotaOnly(e) == e.cls = "ResourceExhausted"

\* Line 129, `except:` catches whatever the primary call raises.
InnerExceptCatches(e) == TRUE

\* Line 133: the fallback is given the same variable `prompt`.
FallbackPrompt(prompt) == prompt

\* Mutant: the primary is tried a second time before the fallback.
ModelCallsRetrying(prompt, primary) ==
    <<[model |-> PrimaryModel, prompt |-> prompt]>>
    \o (IF primary.raises
        THEN <<[model |-> PrimaryModel, prompt |-> prompt],
               [model |-> FallbackModel, prompt |-> prompt]>>
        ELSE <<>>)

\* Lines 126-133: the generate_content calls made, in order.
ModelCalls(prompt, primary) ==
    <<[model |-> PrimaryModel, prompt |-> prompt]>>
    \o (IF primary.raises /\ InnerExceptCatches(primary.err)
        THEN <<[model |-> FallbackModel, prompt |-> FallbackPrompt(prompt)]>>
        ELSE <<>>)

\* Mutant: the handled exception is re-raised in place of the new one.
KeepsHandled(handled, raised) == handled

\* Lines 129-133: an exception raised inside the handler replaces the one
\* being handled as the exception that propagates.
RaisedInHandler(handled, raised) == raised

\* Lines 126-133: the response bound to `response`, or the exception that
\* leaves the inner try statement.
CallModels(primary, fallback) ==
    IF ~primary.raises THEN [raised |-> FALSE, err |-> NoError, response |-> primary]
    ELSE IF ~InnerExceptCatches(primary.err)
         THEN [raised |-> TRUE, err |-> primary.err, response |-> primary]
    ELSE IF fallback.raises
         THEN [raised |-> TRUE, err |-> RaisedInHandler(primary.err, fallback.err),
               response |-> fallback]
    ELSE [raised |-> FALSE, err |-> NoError, response |-> fallback]

\* Mutant: index 0 of the first split, the text before the opener.
StripFencesBeforeOpener(text) ==
    IF Contains(text, FenceJson) THEN Split(Split(text, FenceJson)[1], Fence)[1]
    ELSE IF Contains(text, Fence) THEN Split(Split(text, Fence)[1], Fence)[1]
    ELSE text

\* Lines 137-140: the text inside the first fenced block, else the text.
StripFences(text) ==
    IF Contains(text, FenceJson) THEN Split(Split(text, FenceJson)[2], Fence)[1]
    ELSE IF Contains(text, Fence) THEN Split(Split(text, Fence)[2], Fence)[1]
    ELSE text

\* Lines 136-142: read the text, strip the fences, parse.
ParseResponse(response) ==
    LET parsed == json_loads(StripFences(response.text))
    IN IF ~response.readable
       THEN [raised |-> TRUE, err |-> response.err, value |-> PyNone, text |-> <<>>]
       ELSE IF ~parsed.ok
            THEN [raised |-> TRUE, value |-> PyNone,
                  err |-> [cls |-> "JSONDecodeError", msg |-> parsed.msg],
                  text |-> StripFences(response.text)]
       ELSE [raised |-> FALSE, err |-> NoError, value |-> parsed.val,
             text |-> StripFences(response.text)]

\* Mutant: the outer handler written as `except json.JSONDecodeError as e`.
CatchesJsonOnly(e) == e.cls = "JSONDecodeError"

\* Line 144, `except Exception as e`.
OuterExceptCatches(e) == e.cls \in ExceptionSubclasses

\* Mutant: a fixed message in place of str(e).
ErrorResultGeneric(e) ==
    PyDict(<<[k |-> ErrorKey, v |-> PyStr(<<"Generation failed">>)]>>)

\* Line 146: {"error": str(e)}
ErrorResult(e) == PyDict(<<[k |-> ErrorKey, v |-> PyStr(e.msg)]>>)

\* generate_gemini_timeline(project_desc, deadline_str) against a service whose
\* two models behave as `primary` and `fallback`: the calls it makes, the lines
\* it prints, the local `text` handed to json.loads, and the value it returns or
\* the exception it lets through.
generate_gemini_timeline(project_desc, deadline_str, primary, fallback) ==
    LET prompt == BuildPrompt(project_desc, deadline_str)
        called == CallModels(primary, fallback)
        body == IF called.raised
                THEN [raised |-> TRUE, err |-> called.err, value |-> PyNone,
                      text |-> <<>>]
                ELSE ParseResponse(called.response)
        calls == ModelCalls(prompt, primary)
        fallbackLine == IF Len(calls) > 1
                        THEN <<"Fallback to gemini-1.5-pro triggered due to primary model failure.">>
                        ELSE <<>>
    IN IF ~body.raised
       THEN [calls |-> calls, stdout |-> fallbackLine, text |-> body.text,
             raised |-> FALSE, err |-> NoError, value |-> body.value]
       ELSE IF OuterExceptCatches(body.err)
            THEN [calls |-> calls, text |-> body.text,
                  stdout |-> fallbackLine \o <<"Gemini Error: ">> \o body.err.msg,
                  raised |-> FALSE, err |-> NoError, value |-> ErrorResult(body.err)]
       ELSE [calls |-> calls, stdout |-> fallbackLine, text |-> body.text,
             raised |-> TRUE, err |-> body.err, value |-> PyNone]

(* -------------------------------- state ------------------------------- *)
VARIABLES
    pending,    \* the arguments and the service behaviour of the call about to be made
    invocation, \* the call of generate_gemini_timeline the latest step made, if any
    history,    \* the models each call so far has called, in order
    users,      \* the User table: rows [id, username, password, google_id]
    projects,   \* the Project table: rows [id, title, data, user_id]
    session,    \* per browser, the id of the logged-in user (0: anonymous)
    response,   \* the latest request and the response it got
    stored      \* per Project row, the result /generate had in hand and its requester

webVars == <<users, projects, session, response, stored>>
vars == <<pending, invocation, history, users, projects, session, response, stored>>

NoOutcome == [calls |-> <<>>, stdout |-> <<>>, text |-> <<>>, raised |-> FALSE,
              err |-> NoError, value |-> PyNone]
NoInvocation == [called |-> FALSE, project_desc |-> PyNone, deadline_str |-> PyNone,
                 primary |-> Raises(NoError), fallback |-> Raises(NoError),
                 out |-> NoOutcome]

\* A fallback model that no call reaches behaves in some way nobody observes.
Unobserved == Raises(NotFoundError)

Input(project_desc, deadline_str, primary, fallback) ==
    [project_desc |-> project_desc, deadline_str |-> deadline_str,
     primary |-> primary, fallback |-> fallback]

Invocation(in) ==
    [called |-> TRUE, project_desc |-> in.project_desc,
     deadline_str |-> in.deadline_str,
     primary |-> in.primary, fallback |-> in.fallback,
     out |-> generate_gemini_timeline(in.project_desc, in.deadline_str,
                                      in.primary, in.fallback)]

ModelsCalled(inv) == [i \in 1..Len(inv.out.calls) |-> inv.out.calls[i].model]

App == PyStr(<<"a", "p", "p">>)
Blog == PyStr(<<"b", "l", "o", "g">>)
ThreeWeeks == PyStr(<<"3", " ", "w", "e", "e", "k", "s">>)
Descriptions == {App}
Deadlines == {ThreeWeeks}

\* Every input over the given service behaviours: the fallback's behaviour
\* varies where the primary raises, the only case in which it is called.
InputsOver(outcomes) ==
    {Input(d, dl, p, Unobserved) :
        d \in Descriptions, dl \in Deadlines, p \in {o \in outcomes : ~o.raises}}
    \cup {Input(d, dl, p, f) :
        d \in Descriptions, dl \in Deadlines,
        p \in {o \in outcomes : o.raises}, f \in outcomes}

\* The inputs of a later call: the primary answers, the fallback answers,
\* both fail.
LaterInputs ==
    {Input(Blog, ThreeWeeks, Responds(SegFenced), Unobserved),
     Input(Blog, ThreeWeeks, Raises(QuotaError), Responds(SegObject)),
     Input(App, ThreeWeeks, Raises(QuotaError), Raises(NotFoundError))}

(* ------------- the function alone: SpecTimeline ----------------------- *)
\* A call with any input is followed alone; sequences of up to MaxCalls calls
\* are followed over the inputs of LaterInputs.
MaxCalls == 2

\* The browsers whose sessions are followed, and the state before any request.
Clients == {"browser1", "browser2"}
NoResponse == [route |-> "", client |-> "", status |-> 0, body |-> PyNone,
               a |-> PyNone, b |-> PyNone, id |-> 0]

InitWeb ==
    /\ users = <<>>
    /\ projects = <<>>
    /\ stored = <<>>
    /\ session = [c \in Clients |-> 0]
    /\ response = NoResponse

InitTimeline ==
    /\ pending \in InputsOver(Outcomes) \cup LaterInputs
    /\ invocation = NoInvocation
    /\ history = <<>>
    /\ InitWeb

CallTimeline ==
    /\ Len(history) < MaxCalls
    /\ Len(history) = 0 \/ pending \in LaterInputs
    /\ invocation' = Invocation(pending)
    /\ history' = Append(history, ModelsCalled(invocation'))
    /\ pending' \in (IF pending \in LaterInputs THEN LaterInputs ELSE {pending})
    /\ UNCHANGED webVars

NextTimeline == CallTimeline

SpecTimeline == InitTimeline /\ [][NextTimeline]_vars

(* ------------------------------ the routes ---------------------------- *)
\* jsonify({key: text})
Message(key, text) == PyDict(<<[k |-> key, v |-> PyStr(<<text>>)]>>)
UsernameKey == <<"username">>
MessageKey == <<"message">>

Respond(route, c, status, body, a, b, id) ==
    [route |-> route, client |-> c, status |-> status, body |-> body,
     a |-> a, b |-> b, id |-> id]

\* flask_bcrypt: generate_password_hash(password) with a fresh salt, and the
\* bcrypt.hashpw(password, pw_hash) that check_password_hash compares with.
Salts == {"salt1"}
BcryptHashpw(password, salt) == <<"$2b$12$", salt, "digest of">> \o password.s
CheckPasswordHash(pw_hash, password) == BcryptHashpw(password, pw_hash[2]) = pw_hash

\* User.query.filter_by(...).first(): the row's index, 0 for None.
UserByUsername(username) ==
    IF username.t = "str" /\ \E i \in 1..Len(users) : users[i].username = username.s
    THEN CHOOSE i \in 1..Len(users) : users[i].username = username.s
    ELSE 0
UserByGoogleId(google_id) ==
    IF \E i \in 1..Len(users) : users[i].google_id = google_id
    THEN CHOOSE i \in 1..Len(users) : users[i].google_id = google_id
    ELSE 0

\* current_user.is_authenticated
IsAuthenticated(c) == session[c] # 0

\* What a client sends for a JSON field: nothing (data.get gives None), an
\* empty string, a string, a number.
Usernames == {PyNone, PyStr(<<"ann@example.com">>), PyStr(<<"bob@example.com">>)}
NewPasswords == {PyNone, PyStr(<<>>), PyStr(<<"hunter2">>)}
Passwords == NewPasswords \cup {PyStr(<<"letmein">>)}
DescriptionFields == {PyNone, PyStr(<<>>), App, PyInt(<<"5">>)}
DeadlineFields == {PyNone, ThreeWeeks}

\* What Google reports for the account that went through the consent screen.
GoogleAccounts == {[email |-> <<"ann@example.com">>, id |-> <<"g-ann">>]}

\* The answers of the service that /generate is followed under.
SegString == <<QUOTE, "x", QUOTE>>
WebPrimary == {Responds(SegProse), Responds(SegObject), Responds(SegErrObject),
               Responds(SegString), Unreadable(BlockedError), Raises(QuotaError)}
WebFallback == {Responds(SegFenced), Raises(NotFoundError)}

\* Line 160: if not desc or not deadline
MissingInput(desc, deadline) == ~Truthy(desc) \/ ~Truthy(deadline)

\* POST /register
register(c) ==
    \E username \in Usernames, password \in NewPasswords, salt \in Salts :
        LET route == "register"
            id == Len(users) + 1
        IN /\ invocation' = NoInvocation
           /\ UNCHANGED <<pending, history, projects, stored>>
           /\ IF UserByUsername(username) # 0
              THEN /\ response' = Respond(route, c, 400,
                         Message(ErrorKey, "User already exists"), username, PyNone, 0)
                   /\ UNCHANGED <<users, session>>
              ELSE IF ~Truthy(password) \/ username.t # "str"
              \* generate_password_hash raises ValueError on an empty password;
              \* the INSERT fails on a NULL username (nullable=False).
              THEN /\ response' = Respond(route, c, 500, PyNone, username, PyNone, 0)
                   /\ UNCHANGED <<users, session>>
              ELSE /\ users' = Append(users,
                         [id |-> id, username |-> username.s,
                          password |-> BcryptHashpw(password, salt),
                          google_id |-> <<>>])
                   /\ session' = [session EXCEPT ![c] = id]
                   /\ response' = Respond(route, c, 200,
                         PyDict(<<[k |-> MessageKey, v |-> PyStr(<<"Registered successfully">>)],
                                  [k |-> UsernameKey, v |-> username]>>),
                         username, PyNone, 0)

\* Line 248: user and user.password and bcrypt.check_password_hash(...)
\* "ok", "invalid", or "raises" when check_password_hash is given None.
Credentials(username, password) ==
    LET u == UserByUsername(username)
    IN IF u = 0 THEN "invalid"
       ELSE IF users[u].password = <<>> THEN "invalid"
       ELSE IF password.t # "str" THEN "raises"
       ELSE IF CheckPasswordHash(users[u].password, password) THEN "ok"
       ELSE "invalid"

\* POST /login
login(c) ==
    \E username \in Usernames, password \in Passwords :
        LET route == "login"
            verdict == Credentials(username, password)
        IN /\ invocation' = NoInvocation
           /\ UNCHANGED <<pending, history, projects, stored, users>>
           /\ CASE verdict = "ok" ->
                   /\ session' = [session EXCEPT ![c] = UserByUsername(username)]
                   /\ response' = Respond(route, c, 200,
                         PyDict(<<[k |-> MessageKey, v |-> PyStr(<<"Login successful">>)],
                                  [k |-> UsernameKey, v |-> username]>>),
                         username, password, 0)
                [] verdict = "raises" ->
                   /\ response' = Respond(route, c, 500, PyNone, username, password, 0)
                   /\ UNCHANGED session
                [] OTHER ->
                   /\ response' = Respond(route, c, 401,
                         Message(ErrorKey, "Invalid credentials"), username, password, 0)
                   /\ UNCHANGED session

\* /logout, behind @login_required: an anonymous client is redirected to the
\* login view.
logout(c) ==
    \E method \in {"GET", "POST"} :
        /\ invocation' = NoInvocation
        /\ UNCHANGED <<pending, history, projects, stored, users>>
        /\ IF ~IsAuthenticated(c)
           THEN /\ response' = Respond("logout", c, 302, PyNone, PyNone, PyNone, 0)
                /\ UNCHANGED session
           ELSE /\ session' = [session EXCEPT ![c] = 0]
                /\ response' =
                     IF method = "GET"
                     THEN Respond("logout", c, 302, PyNone, PyNone, PyNone, 0)
                     ELSE Respond("logout", c, 200, Message(MessageKey, "Logged out"),
                                  PyNone, PyNone, 0)

\* GET /google/callback: the token exchange fails, or Google names an account.
google_authorize(c) ==
    \/ /\ response' = Respond("google/callback", c, 400,
                              PyStr(<<"Authentication failed.">>), PyNone, PyNone, 0)
       /\ invocation' = NoInvocation
       /\ UNCHANGED <<pending, history, projects, stored, users, session>>
    \/ \E g \in GoogleAccounts :
        LET byId == UserByGoogleId(g.id)
            byEmail == UserByUsername(PyStr(g.email))
            id == Len(users) + 1
        IN /\ invocation' = NoInvocation
           /\ UNCHANGED <<pending, history, projects, stored>>
           /\ response' = Respond("google/callback", c, 302, PyNone,
                                  PyStr(g.email), PyNone, 0)
           /\ IF byId # 0
              THEN /\ UNCHANGED users
                   /\ session' = [session EXCEPT ![c] = byId]
              ELSE IF byEmail # 0
              THEN /\ users' = [users EXCEPT ![byEmail].google_id = g.id]
                   /\ session' = [session EXCEPT ![c] = byEmail]
              ELSE /\ users' = Append(users,
                         [id |-> id, username |-> g.email, password |-> <<>>,
                          google_id |-> g.id])
                   /\ session' = [session EXCEPT ![c] = id]

\* Line 166, `'error' not in result`: a key test on a dict, a substring test on
\* a str, a TypeError on anything else.
ErrorNotIn(result) ==
    CASE result.t = "dict" -> IF HasKey(result, ErrorKey) THEN "false" ELSE "true"
      [] result.t = "str" -> IF Contains(result.s, ErrorKey) THEN "false" ELSE "true"
      [] OTHER -> "raises"

\* Lines 167-171: the row /generate inserts.
NewProject(result, user_id) ==
    [id |-> Len(projects) + 1,
     title |-> DictGet(result, ProjectTitleKey, PyStr(UntitledProject)),
     data |-> json_dumps(result),
     user_id |-> user_id]

\* The service behaviours /generate is followed under, and the call of
\* generate_gemini_timeline (line 163) on each input, worked out once.
WebInputs ==
    {Input(desc, deadline, primary, Unobserved) :
        desc \in DescriptionFields, deadline \in DeadlineFields,
        primary \in {o \in WebPrimary : ~o.raises}}
    \cup {Input(desc, deadline, primary, fallback) :
        desc \in DescriptionFields, deadline \in DeadlineFields,
        primary \in {o \in WebPrimary : o.raises}, fallback \in WebFallback}
WebCalls == {Invocation(in) : in \in {i \in WebInputs :
                                        ~MissingInput(i.project_desc, i.deadline_str)}}

\* What line 163 can lead to for these fields; no call when line 160 returns.
CallsFor(desc, deadline) ==
    IF MissingInput(desc, deadline) THEN {NoInvocation}
    ELSE {call \in WebCalls :
            \E in \in WebInputs : /\ in.project_desc = desc
                                  /\ in.deadline_str = deadline
                                  /\ call = Invocation(in)}

\* POST /generate
generate(c) ==
    \E desc \in DescriptionFields, deadline \in DeadlineFields :
    \E inv \in CallsFor(desc, deadline) :
        LET route == "generate"
            result == inv.out.value
            saving == IF IsAuthenticated(c) THEN ErrorNotIn(result) ELSE "false"
        IN /\ UNCHANGED <<pending, history, users, session>>
           /\ invocation' = inv
           /\ IF ~inv.called
              THEN /\ response' = Respond(route, c, 400,
                         Message(ErrorKey, "Missing input"), desc, deadline, 0)
                   /\ UNCHANGED <<projects, stored>>
              ELSE IF inv.out.raised \/ saving = "raises"
                      \/ (saving = "true" /\ result.t # "dict")
              \* the exception of generate_gemini_timeline, of the `in` test or
              \* of result.get leaves the view: a 500
              THEN /\ response' = Respond(route, c, 500, PyNone, desc, deadline, 0)
                   /\ UNCHANGED <<projects, stored>>
              ELSE IF saving = "true"
              THEN /\ Len(projects) < MaxProjects
                   /\ projects' = Append(projects, NewProject(result, session[c]))
                   /\ stored' = Append(stored,
                         [value |-> result, user_id |-> session[c]])
                   /\ response' = Respond(route, c, 200, result, desc, deadline, 0)
              ELSE /\ response' = Respond(route, c, 200, result, desc, deadline, 0)
                   /\ UNCHANGED <<projects, stored>>

\* Mutant: the owner check left out.
OwnerUnchecked(project, user_id) == FALSE

\* Line 280: project.user_id != current_user.id
NotOwner(project, user_id) == project.user_id # user_id

\* GET /project/<id>, behind @login_required
get_project(c) ==
    \E id \in 1..(MaxProjects + 1) :
        /\ invocation' = NoInvocation
        /\ UNCHANGED <<pending, history, users, projects, stored, session>>
        /\ response' =
             IF ~IsAuthenticated(c)
             THEN Respond("project", c, 302, PyNone, PyNone, PyNone, id)
             ELSE IF id > Len(projects)
             THEN Respond("project", c, 404, PyNone, PyNone, PyNone, id)
             ELSE IF NotOwner(projects[id], session[c])
             THEN Respond("project", c, 403, Message(ErrorKey, "Unauthorized"),
                          PyNone, PyNone, id)
             ELSE Respond("project", c, 200, json_loads(projects[id].data).val,
                          PyNone, PyNone, id)

(* ------------------ the application: Spec ----------------------------- *)
Init ==
    /\ pending = Input(App, ThreeWeeks, Raises(QuotaError), Raises(NotFoundError))
    /\ invocation = NoInvocation
    /\ history = <<>>
    /\ InitWeb

Next ==
    \E c \in Clients :
        \/ register(c)
        \/ login(c)
        \/ logout(c)
        \/ google_authorize(c)
        \/ generate(c)
        \/ get_project(c)

Spec == Init /\ [][Next]_vars

(* ====================== claims about the function ===================== *)
out == invocation.out

\* A model call succeeded: generate_content returned a response.
ModelAnswered ==
    /\ invocation.called
    /\ (invocation.primary.raises => ~invocation.fallback.raises)

\* The response the function went on to read.
Answer == IF invocation.primary.raises THEN invocation.fallback ELSE invocation.primary

\* {"error": msg}
Failure(msg) == PyDict(<<[k |-> ErrorKey, v |-> PyStr(msg)]>>)
IsFailure(v) == v.t = "dict" /\ Len(v.m) = 1 /\ v.m[1].k = ErrorKey /\ v.m[1].v.t = "str"

\* What the function returns for an outcome of json.loads.
ResultOf(parsed) == IF parsed.ok THEN parsed.val ELSE Failure(parsed.msg)

\* The first index from `from` at which sub starts in s; 0 when there is none.
FirstAt(s, sub, from) ==
    IF \E i \in from..Len(s) : StartsAt(s, sub, i)
    THEN CHOOSE i \in from..Len(s) :
            StartsAt(s, sub, i) /\ \A j \in from..(i - 1) : ~StartsAt(s, sub, j)
    ELSE 0

\* The text after the first opener up to the next fence, or to the end.
BetweenFences(text, opener) ==
    LET b == FirstAt(text, opener, 1) + Len(opener)
        j == FirstAt(text, Fence, b)
    IN SubSeq(text, b, IF j = 0 THEN Len(text) ELSE j - 1)

\* C1: whenever the primary call raises, the fallback model is called next with
\* the identical prompt; and if the fallback answers, the result is the one the
\* same answer would give had the primary produced it, whatever error the
\* primary raised.
C1_FallbackSamePrompt ==
    (invocation.called /\ invocation.primary.raises) =>
        /\ Len(out.calls) = 2
        /\ out.calls[1].model = PrimaryModel
        /\ out.calls[2].model = FallbackModel
        /\ out.calls[2].prompt = out.calls[1].prompt
        /\ out.calls[1].prompt =
             BuildPrompt(invocation.project_desc, invocation.deadline_str)
        /\ ~invocation.fallback.raises =>
             /\ ~out.raised
             /\ out.value =
                  generate_gemini_timeline(invocation.project_desc,
                      invocation.deadline_str, invocation.fallback, Unobserved).value
             /\ \A e \in ServiceErrors :
                  out.value =
                    generate_gemini_timeline(invocation.project_desc,
                        invocation.deadline_str, Raises(e), invocation.fallback).value

C1_Witness ==
    /\ invocation.called
    /\ invocation.primary = Raises(QuotaError)
    /\ invocation.fallback = Responds(SegFenced)
    /\ out.value = json_loads(SegObject).val

\* C2: if both model calls fail, the function returns {"error": message} with
\* the message the fallback's error text, not the primary's.
C2_BothFailFallbackText ==
    (invocation.called /\ invocation.primary.raises /\ invocation.fallback.raises) =>
        /\ ~out.raised
        /\ out.value = Failure(invocation.fallback.err.msg)

C2_Witness ==
    /\ invocation.called
    /\ invocation.primary = Raises(QuotaError)
    /\ invocation.fallback = Raises(NotFoundError)
    /\ out.value = Failure(NotFoundError.msg)

\* C5: every call returns a value: no exception of the primary call, the
\* fallback call, the read of response.text or json.loads leaves the function.
C5_AlwaysReturns ==
    invocation.called => (~out.raised /\ out.value # PyNone)

C5_Witness ==
    /\ invocation.called
    /\ invocation.primary.raises
    /\ ~invocation.fallback.raises
    /\ ~invocation.fallback.readable
    /\ out.value = Failure(BlockedError.msg)

\* C6: a call makes one or two generation calls: the primary first and once
\* only, then the fallback at most once and only if the primary raised; and
\* every call of a sequence of calls starts with the primary, whatever the
\* earlier ones met.
C6_OneOrTwoCalls ==
    /\ invocation.called =>
        /\ Len(out.calls) \in {1, 2}
        /\ out.calls[1].model = PrimaryModel
        /\ Len(out.calls) = 2 =>
             (out.calls[2].model = FallbackModel /\ invocation.primary.raises)
    /\ \A i \in 1..Len(history) :
        /\ history[i][1] = PrimaryModel
        /\ \A j \in 2..Len(history[i]) : history[i][j] # PrimaryModel

C6_Witness ==
    /\ Len(history) = 2
    /\ history[1] = <<PrimaryModel, FallbackModel>>
    /\ history[2] = <<PrimaryModel>>

\* The ways of reading text as prefix + FenceJson + NL + J + NL + Fence + suffix:
\* <<i, j>> with the opener at i and the closer at j.
Decompositions(text) ==
    {d \in (1..Len(text)) \X (1..Len(text)) :
        /\ StartsAt(text, FenceJson \o NL, d[1])
        /\ d[2] >= d[1] + Len(FenceJson) + 1
        /\ StartsAt(text, NL \o Fence, d[2])}
PrefixOf(text, d) == SubSeq(text, 1, d[1] - 1)
JsonOf(text, d) == SubSeq(text, d[1] + Len(FenceJson) + 1, d[2] - 1)

C4_Original ==
    ModelAnswered =>
        IF Answer.readable /\ ~json_loads(out.text).ok
        THEN out.value = Failure(json_loads(out.text).msg)
        ELSE /\ Answer.readable
             /\ out.value = json_loads(out.text).val

\* C4 (amended): when a model call succeeded and response.text could be read,
\* the result is a Failure with the parser's error text if the extracted text
\* is not valid JSON, and otherwise the parsed value whatever its shape; when
\* reading response.text raised, the result is a Failure with that error's text.
C4_ParseOutcome ==
    ModelAnswered =>
        /\ ~out.raised
        /\ IF ~Answer.readable
           THEN out.value = Failure(Answer.err.msg)
           ELSE IF ~json_loads(out.text).ok
                THEN out.value = Failure(json_loads(out.text).msg)
                ELSE out.value = json_loads(out.text).val

\* Prose that is no JSON at all: a Failure with the decoder's message.
C4_Witness ==
    /\ ModelAnswered
    /\ Answer = Responds(SegProse \o SegProse)
    /\ out.value = Failure(<<"Expecting value", ": char ", "0">>)

(* ======================= claims about the routes ====================== *)
\* The requester of the latest request is logged in as the owner of the
\* project row it asked for.
OwnerAsked ==
    /\ IsAuthenticated(response.client)
    /\ response.id \in 1..Len(stored)
    /\ stored[response.id].user_id = session[response.client]

\* C7: GET /project/<id> answers 200 to the authenticated owner of the row and
\* to nobody else; the owner's body is the object /generate had in hand when it
\* stored the row; another authenticated user gets 403 Unauthorized and an
\* anonymous requester gets no body at all.
C7_OwnerOnly ==
    response.route = "project" =>
        /\ response.status = 200 <=> OwnerAsked
        /\ OwnerAsked => response.body = stored[response.id].value
        /\ (/\ IsAuthenticated(response.client)
            /\ response.id \in 1..Len(stored)
            /\ ~OwnerAsked) =>
              /\ response.status = 403
              /\ response.body = Message(ErrorKey, "Unauthorized")
        /\ ~IsAuthenticated(response.client) => response.body = PyNone

\* Two users each own a row, both are logged in, and one of them reads its own.
C7_Witness ==
    /\ response.route = "project"
    /\ response.status = 200
    /\ Len(stored) = 2
    /\ stored[1].user_id # stored[2].user_id
    /\ \A c \in Clients : IsAuthenticated(c)
    /\ \E c \in Clients : session[c] # session[response.client]
    /\ response.body = json_loads(SegObject).val

NonEmptyString(v) == v.t = "str" /\ v.s # <<>>

\* C8 as stated: a /generate request with a missing or empty description or
\* deadline is answered 400 {"error": "Missing input"}, calls nothing and stores
\* nothing; and whenever the function is invoked both arguments are non-empty
\* strings.
C8_Original ==
    [][response'.route = "generate" =>
        /\ MissingInput(response'.a, response'.b) =>
              /\ response'.status = 400
              /\ response'.body = Message(ErrorKey, "Missing input")
              /\ ~invocation'.called
              /\ projects' = projects
        /\ invocation'.called =>
              /\ NonEmptyString(invocation'.project_desc)
              /\ NonEmptyString(invocation'.deadline_str)]_vars

\* C9 as stated: a /generate request that reaches the function adds exactly one
\* Project row, owned by the requester and holding the result, if and only if
\* the requester is authenticated and the result is a Success; otherwise the
\* table is unchanged; and the response is the result in both cases.
C9_Original ==
    [][(response'.route = "generate" /\ invocation'.called) =>
        /\ IF /\ IsAuthenticated(response'.client)
              /\ ~invocation'.out.raised
              /\ ~IsFailure(invocation'.out.value)
           THEN /\ Len(projects') = Len(projects) + 1
                /\ SubSeq(projects', 1, Len(projects)) = projects
                /\ projects'[Len(projects')].user_id = session[response'.client]
                /\ projects'[Len(projects')].data = json_dumps(invocation'.out.value)
           ELSE projects' = projects
        /\ response'.status = 200
        /\ response'.body = invocation'.out.value]_vars

\* C10 as stated: POST /login logs a session in as u only if u exists, has a
\* non-empty stored hash and the supplied password matches it (so never for an
\* account the Google callback created); and a login that fails is answered
\* 401 and leaves the sessions and the User table as they were.
C10_Original ==
    [][response'.route = "login" =>
        /\ (response'.status = 200 \/ session' # session) =>
              /\ UserByUsername(response'.a) # 0
              /\ session' = [session EXCEPT ![response'.client] =
                                UserByUsername(response'.a)]
              /\ users[UserByUsername(response'.a)].password # <<>>
              /\ response'.b.t = "str"
              /\ CheckPasswordHash(users[UserByUsername(response'.a)].password,
                                   response'.b)
        /\ response'.status # 200 =>
              /\ response'.status = 401
              /\ session' = session
              /\ users' = users]_vars
====
